---- MODULE Spec2Model ----
(***************************************************************************)
(* BooksService of books-army-service-bot: ingestion of a text as a book   *)
(* with its chunks (createBook), the paginated read path with read-ahead   *)
(* into the cache manager (getPageByBookId) and deletion (deleteBookById). *)
(*                                                                         *)
(* The Node.js event loop runs the code between two awaits atomically, so  *)
(* every action below is one such segment.  An await on a repository call  *)
(* is a point where other handlers interleave.  The cache manager's get    *)
(* and set take effect when they are issued (the set calls of the source   *)
(* are not awaited, and a read that follows them on the same cache sees    *)
(* them), so cache accesses belong to the segment that issues them.        *)
(* Every repository call may fail with a store error.                      *)
(***************************************************************************)
EXTENDS Integers, Sequences, FiniteSets, TLC

VARIABLES
    books,      \* bookRepository: id -> Book row (the ids are those stored)
    chunks,     \* bookChunkRepository: set of BooksChunk rows
    nextId,     \* next identifier the store assigns to a Book
    cache,      \* cacheManager: key -> cached BooksChunk (with its relations)
    call,       \* getPageByBookId invocations: position, arguments, locals
    creator,    \* the createBook invocation in flight
    deleter,    \* the deleteBookById invocation in flight
    deleted     \* ids for which deleteBookById has returned result=true

vars == <<books, chunks, nextId, cache, call, creator, deleter, deleted>>

----------------------------------------------------------------------------
(* Bounds of the model *)

MaxBooks == 1
MaxTextLen == 2
NumCalls == 2

Ids == 1..MaxBooks
Calls == 1..NumCalls
Pages == (0 - 1)..MaxTextLen

\* Users known to the service, each with an API key and a chunk size.
Users == {[apiKey |-> "k1", chunkSize |-> 1], [apiKey |-> "k2", chunkSize |-> 2]}
ApiKeys == {u.apiKey : u \in Users}

\* The text a user uploads: MaxTextLen distinct characters (characters are
\* numbered), so that chunks differ in content; the users' chunk sizes make
\* it a book of MaxTextLen chunks for one user and of fewer for the other.
Texts == {[i \in 1..MaxTextLen |-> i]}

----------------------------------------------------------------------------
(* Values *)

NoChunk == [kind |-> "null"]
NoResult == [kind |-> "pending"]
NotFound == [kind |-> "null"]
StoreError(at) == [kind |-> "error", at |-> at]

Min(a, b) == IF a < b THEN a ELSE b

\* splitEveryN(str, n) of @core/utils: consecutive substrings of n characters,
\* the last one holding the remainder; one empty chunk for the empty text.
splitEveryN(str, n) ==
    LET count == IF Len(str) = 0 THEN 1 ELSE (Len(str) + n - 1) \div n
    IN  [chunks |-> [k \in 1..count |->
                        [chunk |-> SubSeq(str, (k - 1) * n + 1, Min(k * n, Len(str))),
                         index |-> k - 1]],
         totalIndex |-> count]

\* Column default of Book.lastIndex.
DefaultLastIndex == 0

\* A cache key that leaves the page number out.
cacheKeyWithoutPage(id, page) == <<"page", id>>

\* `page_${id}_${page}`
cacheKey(id, page) == <<"page", id, page>>

\* A next-page key that names the requested page itself.
nextPageCacheKeySamePage(id, page) == <<"page", id, page>>

\* `page_${id}_${page + 1}`
nextPageCacheKey(id, page) == cacheKey(id, page + 1)

\* cacheManager.get on cache content cch: the entry's value, or nothing on a miss.
cacheGet(cch, key) == IF key \in DOMAIN cch THEN cch[key].value ELSE NoChunk

\* cacheManager.set(key, value, ttl) on cache content cch: overwrites the entry.
cacheSet(cch, key, value, ttl) ==
    [k \in DOMAIN cch \cup {key} |->
        IF k = key THEN [value |-> value, ttl |-> ttl] ELSE cch[k]]

\* TTL arguments of the two set calls.
PrimaryTtl == 3600
NoTtl == 0 - 1

\* A read-ahead write that passes the TTL of the requested page.
setNextPageWithTtl(cch, key, nextPage) == cacheSet(cch, key, nextPage, PrimaryTtl)

\* cacheManager.set(nextPageCacheKey, nextPage): no TTL argument.
setNextPage(cch, key, nextPage) == cacheSet(cch, key, nextPage, NoTtl)

\* A BooksChunk row with relations ['book', 'book.user'] loaded.
WithRelations(ch) ==
    [kind |-> "chunk", text |-> ch.text, index |-> ch.index,
     book |-> [id |-> ch.book,
               lastIndex |-> books[ch.book].lastIndex,
               totalIndex |-> books[ch.book].totalIndex,
               user |-> books[ch.book].user]]

\* A chunk lookup whose where clause has no index condition.
findOneChunkAnyIndex(id, page, apiKey) ==
    LET found == {ch \in chunks : /\ ch.book = id
                                  /\ ch.book \in DOMAIN books
                                  /\ books[ch.book].user = apiKey}
    IN  IF found = {} THEN NoChunk ELSE WithRelations(CHOOSE ch \in found : TRUE)

\* bookChunkRepository.findOne({where: {book: {id, user: {apiKey}}, index: page}})
findOneChunk(id, page, apiKey) ==
    LET found == {ch \in chunks : /\ ch.book = id
                                  /\ ch.index = page
                                  /\ ch.book \in DOMAIN books
                                  /\ books[ch.book].user = apiKey}
    IN  IF found = {} THEN NoChunk ELSE WithRelations(CHOOSE ch \in found : TRUE)

\* BooksService.getChunk
getChunk(id, page, apiKey) == findOneChunk(id, page, apiKey)

\* A progress condition that does not look at saveCurrentPage.
UpdateDueAlways(page, chunk, saveCurrentPage) == page # chunk.book.lastIndex

\* page !== chunk.book.lastIndex && saveCurrentPage
UpdateDue(page, chunk, saveCurrentPage) ==
    page # chunk.book.lastIndex /\ saveCurrentPage

\* The GetChunkDto that getPageByBookId returns.
PageView(chunk, page) ==
    [kind |-> "page", text |-> chunk.text, bookId |-> chunk.book.id,
     currentPage |-> page, totalPage |-> chunk.book.totalIndex]

Active(c) == call[c].pc \notin {"idle", "done"}

\* The invocation whose response is kept for inspection once it has returned;
\* the responses of the other invocations are consumed as they return.
Observed == CHOOSE c \in Calls : \A d \in Calls : c <= d

IdleCall ==
    [pc |-> "idle", id |-> 1, page |-> 0, apiKey |-> "k1", save |-> TRUE,
     chunk |-> NoChunk, result |-> NoResult, observed |-> FALSE,
     afterDelete |-> FALSE, undisturbed |-> TRUE]

----------------------------------------------------------------------------
Init ==
    /\ books = <<>>
    /\ chunks = {}
    /\ nextId = 1
    /\ cache = <<>>
    /\ call = [c \in Calls |-> IdleCall]
    /\ creator = [pc |-> "idle"]
    /\ deleter = [pc |-> "idle"]
    /\ deleted = {}

----------------------------------------------------------------------------
(* getPageByBookId *)

Finish(rec, result) ==
    IF rec.observed
    THEN [rec EXCEPT !.pc = "done", !.chunk = NoChunk, !.result = result]
    ELSE IdleCall

\* Lines 112-116 and 124-131: look the next page up in the cache; on a hit
\* return the page, on a miss go and fetch the next page from the store.
Prefetch(rec, chunk, cch) ==
    IF cacheGet(cch, nextPageCacheKey(rec.id, rec.page)).kind = "chunk"
    THEN Finish(rec, PageView(chunk, rec.page))
    ELSE [rec EXCEPT !.pc = "nextFind", !.chunk = chunk]

\* Lines 102-110: with the chunk resolved, write the progress when it is due.
AfterPrimary(rec, chunk, cch) ==
    IF UpdateDue(rec.page, chunk, rec.save)
    THEN [rec EXCEPT !.pc = "update", !.chunk = chunk]
    ELSE Prefetch(rec, chunk, cch)

\* Lines 73-83: a caller invokes getPageByBookId; the cache is read first.
GetPageInvoke(c, id, page, apiKey, save) ==
    /\ ~Active(c)
    /\ LET rec == [pc |-> "find", id |-> id, page |-> page, apiKey |-> apiKey,
                   save |-> save, chunk |-> NoChunk, result |-> NoResult,
                   observed |-> c = Observed,
                   afterDelete |-> c = Observed /\ id \in deleted,
                   undisturbed |-> c = Observed =>
                       \A d \in Calls \ {c} :
                           ~(Active(d) /\ call[d].id = id /\ call[d].page # page)]
           chunk == cacheGet(cache, cacheKey(id, page))
           mine == IF chunk.kind = "chunk" THEN AfterPrimary(rec, chunk, cache) ELSE rec
       IN  call' = [d \in Calls |->
                       IF d = c THEN mine
                       ELSE IF /\ d = Observed /\ call[d].pc # "idle"
                               /\ call[d].id = id /\ call[d].page # page
                            THEN [call[d] EXCEPT !.undisturbed = FALSE]
                            ELSE call[d]]
    /\ UNCHANGED <<books, chunks, nextId, cache, creator, deleter, deleted>>

\* A store fallback that caches the outcome of the lookup before looking at it.
GetPageFindCachingNull(c, ok) ==
    /\ call[c].pc = "find"
    /\ LET rec == call[c]
             chunk == findOneChunk(rec.id, rec.page, rec.apiKey)
             cch == cacheSet(cache, cacheKey(rec.id, rec.page), chunk, PrimaryTtl)
         IN  IF ~ok
             THEN /\ call' = [call EXCEPT ![c] = Finish(rec, StoreError("find"))]
                  /\ cache' = cache
             ELSE IF chunk.kind # "chunk"
             THEN /\ call' = [call EXCEPT ![c] = Finish(rec, NotFound)]
                  /\ cache' = cch
             ELSE /\ cache' = cch
                  /\ call' = [call EXCEPT ![c] = AfterPrimary(rec, chunk, cch)]
    /\ UNCHANGED <<books, chunks, nextId, creator, deleter, deleted>>

\* Lines 84-104: on a cache miss the chunk is read from the store, scoped to
\* the caller's key, and cached with the explicit TTL.
GetPageFind(c, ok) ==
    /\ call[c].pc = "find"
    /\ LET rec == call[c]
             chunk == findOneChunk(rec.id, rec.page, rec.apiKey)
             cch == cacheSet(cache, cacheKey(rec.id, rec.page), chunk, PrimaryTtl)
         IN  IF ~ok
             THEN /\ call' = [call EXCEPT ![c] = Finish(rec, StoreError("find"))]
                  /\ cache' = cache
             ELSE IF chunk.kind # "chunk"
             THEN /\ call' = [call EXCEPT ![c] = Finish(rec, NotFound)]
                  /\ cache' = cache
             ELSE /\ cache' = cch
                  /\ call' = [call EXCEPT ![c] = AfterPrimary(rec, chunk, cch)]
    /\ UNCHANGED <<books, chunks, nextId, creator, deleter, deleted>>

\* An update that stores the page number counted from one.
updateLastIndexOneBased(id, page) ==
    [b \in DOMAIN books |->
        IF b = id THEN [books[b] EXCEPT !.lastIndex = page + 1] ELSE books[b]]

\* bookRepository.update(id, {lastIndex: page}): no row is touched when the
\* book is gone.
updateLastIndex(id, page) ==
    [b \in DOMAIN books |-> IF b = id THEN [books[b] EXCEPT !.lastIndex = page] ELSE books[b]]

\* Lines 106-116: the awaited update of lastIndex, then the cache lookup of
\* the next page.
GetPageUpdate(c, ok) ==
    /\ call[c].pc = "update"
    /\ LET rec == call[c]
         IN  IF ~ok
             THEN /\ call' = [call EXCEPT ![c] = Finish(rec, StoreError("update"))]
                  /\ books' = books
             ELSE /\ books' = updateLastIndex(rec.id, rec.page)
                  /\ call' = [call EXCEPT ![c] = Prefetch(rec, rec.chunk, cache)]
    /\ UNCHANGED <<chunks, nextId, cache, creator, deleter, deleted>>

\* Lines 117-131: the awaited store read of the next page, cached without a
\* TTL argument when found, then the page is returned.
GetPageNextFind(c, ok) ==
    /\ call[c].pc = "nextFind"
    /\ LET rec == call[c]
             nextPage == getChunk(rec.id, rec.page + 1, rec.apiKey)
         IN  IF ~ok
             THEN /\ call' = [call EXCEPT ![c] = Finish(rec, StoreError("prefetch"))]
                  /\ cache' = cache
             ELSE /\ cache' = IF nextPage.kind = "chunk"
                              THEN setNextPage(cache, nextPageCacheKey(rec.id, rec.page),
                                               nextPage)
                              ELSE cache
                  /\ call' = [call EXCEPT ![c] = Finish(rec, PageView(rec.chunk, rec.page))]
    /\ UNCHANGED <<books, chunks, nextId, creator, deleter, deleted>>

\* A cache entry expires (its TTL ran out) or is evicted.
Expire(key) ==
    /\ key \in DOMAIN cache
    /\ cache' = [k \in DOMAIN cache \ {key} |-> cache[k]]
    /\ UNCHANGED <<books, chunks, nextId, call, creator, deleter, deleted>>

----------------------------------------------------------------------------
(* createBook *)

\* Lines 45-58: split the text and insert the Book row.
CreateInsertBook(user, text, ok) ==
    /\ creator.pc = "idle"
    /\ nextId <= MaxBooks
    /\ LET split == splitEveryN(text, user.chunkSize)
         IN  IF ~ok
             THEN UNCHANGED <<books, nextId, creator>>
             ELSE /\ books' = books @@ (nextId :> [user |-> user.apiKey,
                                                   totalIndex |-> split.totalIndex - 1,
                                                   lastIndex |-> DefaultLastIndex])
                  /\ nextId' = nextId + 1
                  /\ creator' = [pc |-> "chunks", id |-> nextId, split |-> split.chunks]
    /\ UNCHANGED <<chunks, cache, call, deleter, deleted>>

\* Rows of chunksToInsert (lines 60-66).
chunksToInsert(insertedBookId, split) ==
    {[book |-> insertedBookId, index |-> split[k].index, text |-> split[k].chunk] :
        k \in DOMAIN split}

\* The bulk write of the chunk store: a keyed store of rows, which takes the
\* rows whether or not the Book row they name is stored.
insertChunkRows(rows) == chunks \cup rows

\* Lines 60-70: insert all chunk rows in one statement, which fails as a whole
\* on a store error.
CreateInsertChunks(ok) ==
    /\ creator.pc = "chunks"
    /\ IF ok
         THEN chunks' = insertChunkRows(chunksToInsert(creator.id, creator.split))
         ELSE chunks' = chunks
    /\ creator' = [pc |-> "idle"]
    /\ UNCHANGED <<books, nextId, cache, call, deleter, deleted>>

----------------------------------------------------------------------------
(* deleteBookById *)

\* A book lookup whose where clause has no user condition.
findOneBookAnyOwner(id, apiKey) == id \in DOMAIN books

\* bookRepository.findOne({where: {id, user: {apiKey}}})
findOneBook(id, apiKey) == id \in DOMAIN books /\ books[id].user = apiKey

\* Lines 265-284: look the book up, scoped to the caller's key.  The record of
\* the invocation notes the chunk rows the book had when it was found.
DeleteFind(id, apiKey, ok) ==
    /\ deleter.pc \in {"idle", "done"}
    /\ deleter' = IF ~ok THEN [pc |-> "done", id |-> id, apiKey |-> apiKey,
                                 result |-> "error", book |-> FALSE]
                    ELSE IF findOneBook(id, apiKey)
                    THEN [pc |-> "chunks", id |-> id, apiKey |-> apiKey,
                          result |-> "pending", book |-> TRUE,
                          had |-> {ch \in chunks : ch.book = id}]
                    ELSE [pc |-> "done", id |-> id, apiKey |-> apiKey,
                          result |-> "false", book |-> FALSE]
    /\ UNCHANGED <<books, chunks, nextId, cache, call, creator, deleted>>

\* Lines 286-291: delete the chunk rows of the book.
DeleteChunks(ok) ==
    /\ deleter.pc = "chunks"
    /\ IF ok
         THEN /\ chunks' = {ch \in chunks : ch.book # deleter.id}
              /\ deleter' = [deleter EXCEPT !.pc = "book"]
         ELSE /\ chunks' = chunks
              /\ deleter' = [deleter EXCEPT !.pc = "done", !.result = "false"]
    /\ UNCHANGED <<books, nextId, cache, call, creator, deleted>>

\* Lines 293-308: delete the Book row and report the outcome.
DeleteBook(ok) ==
    /\ deleter.pc = "book"
    /\ IF ok
         THEN /\ books' = [b \in DOMAIN books \ {deleter.id} |-> books[b]]
              /\ deleted' = deleted \cup {deleter.id}
              /\ deleter' = [deleter EXCEPT !.pc = "done", !.result = "true"]
         ELSE /\ UNCHANGED <<books, deleted>>
              /\ deleter' = [deleter EXCEPT !.pc = "done", !.result = "false"]
    /\ UNCHANGED <<chunks, nextId, cache, call, creator>>

----------------------------------------------------------------------------
\* Readers one at a time, with ingestion, deletion, cache expiry and store
\* errors interleaved at every await.
Next ==
    \/ \E id \in Ids, page \in Pages, apiKey \in ApiKeys, save \in BOOLEAN :
         GetPageInvoke(Observed, id, page, apiKey, save)
    \/ \E ok \in BOOLEAN : GetPageFind(Observed, ok)
    \/ \E ok \in BOOLEAN : GetPageUpdate(Observed, ok)
    \/ \E ok \in BOOLEAN : GetPageNextFind(Observed, ok)
    \/ \E key \in DOMAIN cache : Expire(key)
    \/ \E user \in Users, text \in Texts, ok \in BOOLEAN : CreateInsertBook(user, text, ok)
    \/ \E ok \in BOOLEAN : CreateInsertChunks(ok)
    \/ \E id \in Ids, apiKey \in ApiKeys, ok \in BOOLEAN : DeleteFind(id, apiKey, ok)
    \/ \E ok \in BOOLEAN : DeleteChunks(ok)
    \/ \E ok \in BOOLEAN : DeleteBook(ok)

Spec == Init /\ [][Next]_vars

\* Concurrent readers over a store that answers, with ingestion, deletion and
\* cache expiry interleaved at every await.
NextConcurrent ==
    \/ \E c \in Calls, id \in Ids, page \in Pages, apiKey \in ApiKeys, save \in BOOLEAN :
         GetPageInvoke(c, id, page, apiKey, save)
    \/ \E c \in Calls : GetPageFind(c, TRUE)
    \/ \E c \in Calls : GetPageUpdate(c, TRUE)
    \/ \E c \in Calls : GetPageNextFind(c, TRUE)
    \/ \E key \in DOMAIN cache : Expire(key)
    \/ \E user \in Users, text \in Texts : CreateInsertBook(user, text, TRUE)
    \/ CreateInsertChunks(TRUE)
    \/ \E id \in Ids, apiKey \in ApiKeys : DeleteFind(id, apiKey, TRUE)
    \/ DeleteChunks(TRUE)
    \/ DeleteBook(TRUE)

SpecConcurrent == Init /\ [][NextConcurrent]_vars

----------------------------------------------------------------------------
(* Notions the properties use *)

\* The API key of the owner of a stored book.
Owner(id) == books[id].user

\* The number of chunks createBook split the book into (it stores the split's
\* totalIndex less one).
ChunkCount(id) == books[id].totalIndex + 1

\* The stored chunk rows of page `page` of book `id`.
ChunkRows(id, page) == {ch \in chunks : ch.book = id /\ ch.index = page}

\* The number of chunk rows stored for book `id`.
StoredChunkCount(id) == Cardinality({ch \in chunks : ch.book = id})

\* Invocation c has returned and its response is at hand.
Returned(c) == call[c].pc = "done"

ReturnedPage(c) == Returned(c) /\ call[c].result.kind = "page"

\* Invocation c returns in this step (the response of an invocation that is
\* not the observed one is consumed at once).
Returns(c) ==
    /\ \/ Active(c)
       \/ [call'[c] EXCEPT !.undisturbed = TRUE] # [call[c] EXCEPT !.undisturbed = TRUE]
    /\ ~Active(c)'

----------------------------------------------------------------------------
(* C1..C10 *)

\* C1 (cache transparency): a page that getPageByBookId returns for (doc, i)
\* carries the text of the stored chunk i of doc and currentPage = i, whatever
\* reads, prefetches, expiries and concurrent calls came before; and a store
\* lookup by the owner of a stored chunk does not come back not-found.
C1_CacheTransparency ==
    /\ [](\A c \in Calls : ReturnedPage(c) =>
            /\ call[c].result.currentPage = call[c].page
            /\ \A ch \in ChunkRows(call[c].id, call[c].page) :
                   call[c].result.text = ch.text)
    /\ [][\A c \in Calls :
            (/\ call[c].pc = "find" /\ call'[c] # call[c]
             /\ call[c].id \in DOMAIN books /\ Owner(call[c].id) = call[c].apiKey
             /\ ChunkRows(call[c].id, call[c].page) # {})
            => ~(Returned(c)' /\ call'[c].result = NotFound)]_vars

\* C1 witness: the owner got page 1 with the stored text, served from the
\* cache, while another invocation for the same book is in flight.
C1_Witness ==
    /\ ReturnedPage(Observed)
    /\ call[Observed].page = 1
    /\ call[Observed].id \in DOMAIN books
    /\ Owner(call[Observed].id) = call[Observed].apiKey
    /\ \E ch \in ChunkRows(call[Observed].id, 1) : call[Observed].result.text = ch.text
    /\ cacheKey(call[Observed].id, 0) \in DOMAIN cache
    /\ \E d \in Calls \ {Observed} : Active(d) /\ call[d].id = call[Observed].id

\* C2 (caller scoping): getPageByBookId with a key that is not the key of the
\* stored book's owner never returns a page.
C2_CallerScoping ==
    \A c \in Calls :
        (Returned(c) /\ call[c].id \in DOMAIN books /\ Owner(call[c].id) # call[c].apiKey)
        => call[c].result.kind # "page"

\* C3 (deletion integrity): an invocation made after deleteBookById returned
\* result=true for the book never returns a page.
C3_DeletionIntegrity ==
    \A c \in Calls : (Returned(c) /\ call[c].afterDelete) => call[c].result.kind # "page"

\* C4 (progress persistence): once getPageByBookId(doc, i, ownerKey, true) has
\* returned a page, and no invocation for another page of doc overlapped or
\* followed it, the stored lastIndex of doc is i.
C4_ProgressPersistence ==
    \A c \in Calls :
        (/\ ReturnedPage(c) /\ call[c].save /\ call[c].undisturbed
         /\ call[c].id \in DOMAIN books /\ Owner(call[c].id) = call[c].apiKey)
        => books[call[c].id].lastIndex = call[c].page

\* C5 (read-ahead): at the moment getPageByBookId(doc, i, ownerKey) returns a
\* page, when page i+1 of doc is stored, the cache holds under (doc, i+1) the
\* chunk of page i+1.
C5_ReadAhead ==
    [][\A c \in Calls :
         (/\ Returns(c) /\ ReturnedPage(c)'
          /\ call'[c].id \in DOMAIN books' /\ books'[call'[c].id].user = call'[c].apiKey
          /\ \E ch \in chunks' : ch.book = call'[c].id /\ ch.index = call'[c].page + 1)
         => LET entry == cacheGet(cache', cacheKey(call'[c].id, call'[c].page + 1))
            IN  /\ entry.kind = "chunk"
                /\ entry.book.id = call'[c].id
                /\ entry.index = call'[c].page + 1
                /\ \A ch \in chunks' :
                       (ch.book = call'[c].id /\ ch.index = call'[c].page + 1)
                       => entry.text = ch.text]_vars

\* C5 witness: the owner's read of page 0 has returned and page 1, which is
\* stored, sits in the cache as the read-ahead wrote it.
C5_Witness ==
    /\ ReturnedPage(Observed)
    /\ call[Observed].page = 0
    /\ call[Observed].id \in DOMAIN books
    /\ Owner(call[Observed].id) = call[Observed].apiKey
    /\ ChunkRows(call[Observed].id, 1) # {}
    /\ cacheKey(call[Observed].id, 1) \in DOMAIN cache
    /\ cache[cacheKey(call[Observed].id, 1)].ttl = NoTtl

\* C6 (ingestion atomicity): every stored book record has all of its chunks
\* stored.
C6_IngestionAtomicity ==
    \A id \in DOMAIN books : \A i \in 0..(ChunkCount(id) - 1) : ChunkRows(id, i) # {}

\* C7 (out-of-range): for a stored book with its chunks, getPageByBookId by the
\* owner for page chunkCount or page -1 returns not-found (or fails with the
\* store error of its one store read), whatever the cache holds.
C7_OutOfRange ==
    \A c \in Calls :
        (/\ Returned(c)
         /\ call[c].id \in DOMAIN books /\ Owner(call[c].id) = call[c].apiKey
         /\ StoredChunkCount(call[c].id) > 0
         /\ call[c].page \in {StoredChunkCount(call[c].id), 0 - 1})
        => call[c].result \in {NotFound, StoreError("find")}

\* C7 witness: with pages of the book in the cache, the owner's read of page
\* chunkCount came back not-found.
C7_Witness ==
    /\ Returned(Observed)
    /\ call[Observed].id \in DOMAIN books
    /\ Owner(call[Observed].id) = call[Observed].apiKey
    /\ StoredChunkCount(call[Observed].id) > 1
    /\ call[Observed].page = StoredChunkCount(call[Observed].id)
    /\ call[Observed].result = NotFound
    /\ cacheKey(call[Observed].id, call[Observed].page - 1) \in DOMAIN cache

\* C8 (prefetch failure is swallowed): getPageByBookId never fails with the
\* error of the store read of page i+1.
C8_PrefetchFailureSwallowed ==
    \A c \in Calls : Returned(c) => call[c].result # StoreError("prefetch")

\* C9 (progress-write failure does not fail the read): getPageByBookId never
\* fails with the error of the update of lastIndex.
C9_ProgressWriteFailureSwallowed ==
    \A c \in Calls : Returned(c) => call[c].result # StoreError("update")

\* C10 (lastIndex range): every stored book has 0 <= lastIndex < chunkCount.
C10_LastIndexInRange ==
    \A id \in DOMAIN books :
        0 <= books[id].lastIndex /\ books[id].lastIndex < ChunkCount(id)

\* C10 witness: the progress of a stored book stands at its last page, which
\* is not its first.
C10_Witness ==
    \E id \in DOMAIN books :
        books[id].lastIndex > 0 /\ books[id].lastIndex = ChunkCount(id) - 1

----------------------------------------------------------------------------
(* C11..C20 *)

\* C11 (no orphaned chunks): every stored chunk row belongs to a stored book
\* record, under every interleaving of createBook and deleteBookById.
C11_NoOrphanedChunks ==
    \A ch \in chunks : ch.book \in DOMAIN books

\* C12 (deletion is all-or-nothing): when deleteBookById found the book and
\* returned result=false, the record and all the chunks the book had are still
\* stored; when it returned result=true, neither the record nor any chunk of
\* the book is stored.
C12_DeletionAllOrNothing ==
    (deleter.pc = "done" /\ deleter.book) =>
        /\ deleter.result = "false" =>
               (deleter.id \in DOMAIN books /\ deleter.had \subseteq chunks)
        /\ deleter.result = "true" =>
               (deleter.id \notin DOMAIN books /\ StoredChunkCount(deleter.id) = 0)

\* The stored lastIndex of every book is the same after the step as before.
LastIndexUnchanged ==
    \A id \in DOMAIN books :
        id \in DOMAIN books' /\ books'[id].lastIndex = books[id].lastIndex

\* C13 (preview reads): no step of an invocation of getPageByBookId with
\* saveCurrentPage=false changes the stored lastIndex of any book, on a cache
\* hit or a miss, with the page found or not.
C13_PreviewReads ==
    [][\A c \in Calls :
         (Active(c) /\ ~call[c].save /\ call'[c] # call[c]) => LastIndexUnchanged]_vars

\* C13 witness: a preview read of a page other than the stored lastIndex has
\* returned the page, and the stored lastIndex is still the other one.
C13_Witness ==
    /\ ReturnedPage(Observed)
    /\ ~call[Observed].save
    /\ call[Observed].id \in DOMAIN books
    /\ Owner(call[Observed].id) = call[Observed].apiKey
    /\ call[Observed].page = 1
    /\ books[call[Observed].id].lastIndex = 0

\* C14 (equivalent cache content): while a book and its chunk of page i are
\* stored, the cache entry of (book, i) is what a store read by the owner gives.
C14_EquivalentCacheContent ==
    \A key \in DOMAIN cache :
        (key[2] \in DOMAIN books /\ ChunkRows(key[2], key[3]) # {})
        => cache[key].value = findOneChunk(key[2], key[3], Owner(key[2]))

\* C15 (the prefetch does not delay the response): no invocation of
\* getPageByBookId is held back, its page resolved and its progress write
\* attempted, waiting for the store read of page i+1.
C15_PrefetchDoesNotDelay ==
    \A c \in Calls : call[c].pc # "nextFind"

\* C16 (TTL asymmetry): every cache entry a step writes is either the entry of
\* the requested page of an invocation at its store fallback, written with the
\* TTL 3600, or the entry of page+1 of an invocation at its read-ahead, written
\* with no TTL.
C16_TtlAsymmetry ==
    [][\A key \in DOMAIN cache' :
         (key \notin DOMAIN cache \/ cache'[key] # cache[key])
         => \E c \in Calls :
              /\ call'[c] # call[c]
              /\ \/ /\ call[c].pc = "find"
                    /\ key = cacheKey(call[c].id, call[c].page)
                    /\ cache'[key].ttl = PrimaryTtl
                 \/ /\ call[c].pc = "nextFind"
                    /\ key = nextPageCacheKey(call[c].id, call[c].page)
                    /\ cache'[key].ttl = NoTtl]_vars

\* C16 witness: the read of page 0 has returned; the cache holds page 0 with
\* the TTL 3600 and page 1, which the read-ahead wrote, with no TTL.
C16_Witness ==
    /\ ReturnedPage(Observed)
    /\ call[Observed].page = 0
    /\ cacheKey(call[Observed].id, 0) \in DOMAIN cache
    /\ cache[cacheKey(call[Observed].id, 0)].ttl = PrimaryTtl
    /\ cacheKey(call[Observed].id, 1) \in DOMAIN cache
    /\ cache[cacheKey(call[Observed].id, 1)].ttl = NoTtl

\* C17 (total page count): a page returned for a stored book whose n chunks
\* are stored has totalPage = n.
C17_TotalPageCount ==
    \A c \in Calls :
        (/\ ReturnedPage(c)
         /\ call[c].id \in DOMAIN books
         /\ StoredChunkCount(call[c].id) > 0)
        => call[c].result.totalPage = StoredChunkCount(call[c].id)

\* C18 (a read never changes another user's progress): no step of an
\* invocation of getPageByBookId whose key is not the key of the book's owner
\* changes the stored lastIndex of any book.
C18_ForeignReadKeepsProgress ==
    [][\A c \in Calls :
         (/\ Active(c) /\ call'[c] # call[c]
          /\ call[c].id \in DOMAIN books /\ Owner(call[c].id) # call[c].apiKey)
         => LastIndexUnchanged]_vars

\* C19 (a not-found read has no effect): getPageByBookId returns null only
\* from its store fallback, and neither the step that takes an invocation to
\* the store fallback nor the step that returns null from it changes the cache
\* or the stored books.
C19_NotFoundHasNoEffect ==
    [][\A c \in Calls :
         /\ (Returns(c) /\ Returned(c)' /\ call'[c].result = NotFound)
            => call[c].pc = "find"
         /\ (/\ call[c].pc = "find" \/ ~Active(c)
             /\ call'[c] # call[c]
             /\ \/ call'[c].pc = "find"
                \/ Returned(c)' /\ call'[c].result = NotFound)
            => (cache' = cache /\ books' = books)]_vars

\* C19 witness: a read of a stored page with another user's key, progress to
\* be saved, came back null; the cache is empty and lastIndex is as created.
C19_Witness ==
    /\ Returned(Observed)
    /\ call[Observed].result = NotFound
    /\ call[Observed].save
    /\ call[Observed].page = 1
    /\ call[Observed].id \in DOMAIN books
    /\ Owner(call[Observed].id) # call[Observed].apiKey
    /\ ChunkRows(call[Observed].id, 1) # {}
    /\ cache = <<>>
    /\ books[call[Observed].id].lastIndex = DefaultLastIndex

\* C20 (deletion is owner-scoped): deleteBookById of a stored book with a key
\* that is not its owner's returns at its lookup with result=false and
\* book=null (or fails with the store error of that lookup), and the stored
\* books and chunks are unchanged.
C20_DeletionOwnerScoped ==
    [][(/\ deleter.pc \in {"idle", "done"} /\ deleter' # deleter
        /\ deleter'.id \in DOMAIN books /\ Owner(deleter'.id) # deleter'.apiKey)
       => /\ deleter'.pc = "done"
          /\ deleter'.result \in {"false", "error"}
          /\ ~deleter'.book
          /\ books' = books /\ chunks' = chunks]_vars

\* C20 witness: deleteBookById with another user's key has returned
\* result=false, book=null, and the book and its chunks are stored.
C20_Witness ==
    /\ deleter.pc = "done"
    /\ deleter.result = "false"
    /\ ~deleter.book
    /\ deleter.id \in DOMAIN books
    /\ Owner(deleter.id) # deleter.apiKey
    /\ StoredChunkCount(deleter.id) = ChunkCount(deleter.id)

====
